---- MODULE Spec2Model ----
(***************************************************************************)
(* A model of the three examples of go-design-patterns:                    *)
(*   singleton  GetInstance (sync.Once) and the DatabaseConnection methods *)
(*   builder    ServerConfigBuilder: setters, Build, ValidationError       *)
(*   factory    CreatePaymentProcessor and the three PaymentProcessors     *)
(* Each example is independent of the others and has a specification of    *)
(* its own: Spec / FairSpec (singleton), SpecBuilder (builder) and          *)
(* SpecFactory (factory).                                                  *)
(***************************************************************************)
EXTENDS Integers, Sequences, FiniteSets, TLC

(***************************************************************************)
(* Bounds of the model.                                                    *)
(***************************************************************************)
\* goroutines that call GetInstance and use the connection concurrently
NumGoroutines == 3

\* calls (setters, Build, NewServerConfigBuilder) made in one run of the builder
MaxCalls == 4

Goroutines == 1..NumGoroutines

\* the nil pointer; heap addresses are 1, 2, ...
Nil == 0

\* sync.Mutex of the Once is held by nobody
NoOwner == 0

VARIABLES
    instance,   \* singleton: var instance *DatabaseConnection
    once,       \* singleton: var once sync.Once  (done flag and mutex owner)
    connID,     \* singleton: var connID int
    heap,       \* singleton: the allocated DatabaseConnection objects, by address
    pc,         \* singleton: where each goroutine is
    db,         \* singleton: each goroutine's local holding GetInstance's result
    obj,        \* singleton: the initializer's freshly allocated address
    stdout,     \* singleton: the last line printed
    cfgHeap,    \* builder: the allocated ServerConfig values, by address
    b,          \* builder: the *ServerConfigBuilder the call chain holds
    configs,    \* builder: the *ServerConfig values Build has returned to the caller
    result,     \* builder: what the last Build returned, (config, err)
    lastCall,   \* builder: the last call made on the builder and its argument
    lastSet,    \* builder: per field, the argument of the last setter call on b
    ncalls,     \* builder: calls made so far
    processor,  \* factory: the PaymentProcessor the caller holds
    err,        \* factory: the error CreatePaymentProcessor returned
    outcome,    \* factory: how the last Process call ended
    fcall,      \* factory: the last call made and its arguments
    fstdout,    \* factory: the last line printed
    lastMethod, \* sequential use: the last method called on the connection
    lastConn    \* sequential use: the most recent of Connect and Disconnect

singletonVars == <<instance, once, connID, heap, pc, db, obj, stdout>>

builderVars == <<cfgHeap, b, configs, result, lastCall, lastSet, ncalls>>

factoryVars == <<processor, err, outcome, fcall, fstdout>>

vars == <<instance, once, connID, heap, pc, db, obj, stdout,
          cfgHeap, b, configs, result, lastCall, lastSet, ncalls,
          processor, err, outcome, fcall, fstdout, lastMethod, lastConn>>

seqVars == <<lastMethod, lastConn>>

(***************************************************************************)
(* singleton/example.go                                                    *)
(***************************************************************************)
ConnectionString == "postgresql://localhost:5432/mydb"

\* the queries the callers issue
SQLs == {"SELECT * FROM users", "SELECT * FROM products"}

\* a DatabaseConnection as the allocator hands it out: every field zero
ZeroDatabaseConnection ==
    [connectionString |-> "", isConnected |-> FALSE, connectionID |-> 0]

\* the composite literal of the initializer
NewDatabaseConnection(id) ==
    [connectionString |-> ConnectionString, isConnected |-> FALSE, connectionID |-> id]

NoOutput == <<"">>

SingletonInit ==
    /\ instance = Nil
    /\ once = [done |-> 0, m |-> NoOwner]
    /\ connID = 0
    /\ heap = <<>>
    /\ pc = [g \in Goroutines |-> "idle"]
    /\ db = [g \in Goroutines |-> Nil]
    /\ obj = [g \in Goroutines |-> Nil]
    /\ stdout = NoOutput

\* ---- sync.Once.Do, as GetInstance uses it --------------------------------

\* a broken double-checked lock: the fast path tests the pointer, not the flag
OnceDoFast_TestsInstance(g) ==
    /\ pc[g] = "idle"
    /\ pc' = [pc EXCEPT ![g] = IF instance = Nil THEN "lock" ELSE "return"]
    /\ UNCHANGED <<instance, once, connID, heap, db, obj, stdout>>

\* GetInstance is entered; Do's fast path: if o.done.Load() == 0 { o.doSlow(f) }
OnceDoFast(g) ==
    /\ pc[g] = "idle"
    /\ pc' = [pc EXCEPT ![g] = IF once.done = 0 THEN "lock" ELSE "return"]
    /\ UNCHANGED <<instance, once, connID, heap, db, obj, stdout>>

\* a Lock that does not wait for the mutex
OnceLock_NoWait(g) ==
    /\ pc[g] = "lock"
    /\ once' = [once EXCEPT !.m = g]
    /\ pc' = [pc EXCEPT ![g] = "check"]
    /\ UNCHANGED <<instance, connID, heap, db, obj, stdout>>

\* doSlow: o.m.Lock() blocks until the mutex is free
OnceLock(g) ==
    /\ pc[g] = "lock"
    /\ once.m = NoOwner
    /\ once' = [once EXCEPT !.m = g]
    /\ pc' = [pc EXCEPT ![g] = "check"]
    /\ UNCHANGED <<instance, connID, heap, db, obj, stdout>>

\* doSlow without the second test of done
OnceCheck_NoRecheck(g) ==
    /\ pc[g] = "check"
    /\ pc' = [pc EXCEPT ![g] = "init_incr"]
    /\ UNCHANGED <<instance, once, connID, heap, db, obj, stdout>>

\* doSlow: if o.done.Load() == 0 { defer o.done.Store(1); f() }
OnceCheck(g) ==
    /\ pc[g] = "check"
    /\ pc' = [pc EXCEPT ![g] = IF once.done = 0 THEN "init_incr" ELSE "unlock"]
    /\ UNCHANGED <<instance, once, connID, heap, db, obj, stdout>>

\* a Once that never records that f has run
OnceStoreDone_Forgets(g) ==
    /\ pc[g] = "store_done"
    /\ pc' = [pc EXCEPT ![g] = "unlock"]
    /\ UNCHANGED <<instance, once, connID, heap, db, obj, stdout>>

\* the deferred o.done.Store(1), run when f has returned
OnceStoreDone(g) ==
    /\ pc[g] = "store_done"
    /\ once' = [once EXCEPT !.done = 1]
    /\ pc' = [pc EXCEPT ![g] = "unlock"]
    /\ UNCHANGED <<instance, connID, heap, db, obj, stdout>>

\* the deferred o.m.Unlock()
OnceUnlock(g) ==
    /\ pc[g] = "unlock"
    /\ once' = [once EXCEPT !.m = NoOwner]
    /\ pc' = [pc EXCEPT ![g] = "return"]
    /\ UNCHANGED <<instance, connID, heap, db, obj, stdout>>

\* ---- the initializer passed to once.Do -----------------------------------

\* connID++
InitIncr(g) ==
    /\ pc[g] = "init_incr"
    /\ connID' = connID + 1
    /\ pc' = [pc EXCEPT ![g] = "init_alloc"]
    /\ UNCHANGED <<instance, once, heap, db, obj, stdout>>

\* &DatabaseConnection{...}: a fresh zeroed object
InitAlloc(g) ==
    /\ pc[g] = "init_alloc"
    /\ heap' = Append(heap, ZeroDatabaseConnection)
    /\ obj' = [obj EXCEPT ![g] = Len(heap) + 1]
    /\ pc' = [pc EXCEPT ![g] = "init_store"]
    /\ UNCHANGED <<instance, once, connID, db, stdout>>

\* the stores of the fields.  Without synchronisation another goroutine may
\* see them and the store of the pointer in either order, so the model takes
\* them in either order.
InitFill(g) ==
    /\ pc[g] \in {"init_store", "init_published"}
    /\ heap' = [heap EXCEPT ![obj[g]] = NewDatabaseConnection(connID)]
    /\ pc' = [pc EXCEPT ![g] = IF pc[g] = "init_store" THEN "init_filled" ELSE "init_print"]
    /\ UNCHANGED <<instance, once, connID, db, obj, stdout>>

\* instance = <the new object>
InitPublish(g) ==
    /\ pc[g] \in {"init_store", "init_filled"}
    /\ instance' = obj[g]
    /\ pc' = [pc EXCEPT ![g] = IF pc[g] = "init_store" THEN "init_published" ELSE "init_print"]
    /\ UNCHANGED <<once, connID, heap, db, obj, stdout>>

\* fmt.Printf("Database connection instance created (ID: %d)\n", connID)
InitPrint(g) ==
    /\ pc[g] = "init_print"
    /\ stdout' = <<"created", connID>>
    /\ obj' = [obj EXCEPT ![g] = Nil]
    /\ pc' = [pc EXCEPT ![g] = "store_done"]
    /\ UNCHANGED <<instance, once, connID, heap, db>>

\* GetInstance returning the connection by value: every caller gets a copy
GetInstanceReturn_Copy(g) ==
    /\ pc[g] = "return"
    /\ instance # Nil
    /\ heap' = Append(heap, heap[instance])
    /\ db' = [db EXCEPT ![g] = Len(heap) + 1]
    /\ pc' = [pc EXCEPT ![g] = "idle"]
    /\ UNCHANGED <<instance, once, connID, obj, stdout>>

\* return instance
GetInstanceReturn(g) ==
    /\ pc[g] = "return"
    /\ db' = [db EXCEPT ![g] = instance]
    /\ pc' = [pc EXCEPT ![g] = "idle"]
    /\ UNCHANGED <<instance, once, connID, heap, obj, stdout>>

\* one step of a GetInstance call of goroutine g
GetInstance(g) ==
    \/ OnceDoFast(g)
    \/ OnceLock(g)
    \/ OnceCheck(g)
    \/ InitIncr(g)
    \/ InitAlloc(g)
    \/ InitFill(g)
    \/ InitPublish(g)
    \/ InitPrint(g)
    \/ OnceStoreDone(g)
    \/ OnceUnlock(g)
    \/ GetInstanceReturn(g)

\* ---- the methods of DatabaseConnection, on the receiver db[g] -------------

\* a Connect whose test is inverted
Connect_InvertedTest(g) ==
    /\ pc[g] = "idle"
    /\ db[g] # Nil
    /\ IF heap[db[g]].isConnected
       THEN /\ pc' = [pc EXCEPT ![g] = "connect_set"]
            /\ UNCHANGED stdout
       ELSE /\ stdout' = <<"already connected", heap[db[g]].connectionID>>
            /\ UNCHANGED pc
    /\ UNCHANGED <<instance, once, connID, heap, db, obj>>

\* Connect: if !db.isConnected
Connect(g) ==
    /\ pc[g] = "idle"
    /\ db[g] # Nil
    /\ IF ~heap[db[g]].isConnected
       THEN /\ pc' = [pc EXCEPT ![g] = "connect_set"]
            /\ UNCHANGED stdout
       ELSE /\ stdout' = <<"already connected", heap[db[g]].connectionID>>
            /\ UNCHANGED pc
    /\ UNCHANGED <<instance, once, connID, heap, db, obj>>

\* Connect: db.isConnected = true; fmt.Printf("Connected to database ...")
ConnectSet(g) ==
    /\ pc[g] = "connect_set"
    /\ heap' = [heap EXCEPT ![db[g]].isConnected = TRUE]
    /\ stdout' = <<"connected", heap[db[g]].connectionID>>
    /\ pc' = [pc EXCEPT ![g] = "idle"]
    /\ UNCHANGED <<instance, once, connID, db, obj>>

\* Disconnect: if db.isConnected
Disconnect(g) ==
    /\ pc[g] = "idle"
    /\ db[g] # Nil
    /\ pc' = [pc EXCEPT ![g] = IF heap[db[g]].isConnected THEN "disconnect_set" ELSE "idle"]
    /\ UNCHANGED <<instance, once, connID, heap, db, obj, stdout>>

\* a Disconnect pasted from Connect that stores true
DisconnectSet_StoresTrue(g) ==
    /\ pc[g] = "disconnect_set"
    /\ heap' = [heap EXCEPT ![db[g]].isConnected = TRUE]
    /\ stdout' = <<"disconnected", heap[db[g]].connectionID>>
    /\ pc' = [pc EXCEPT ![g] = "idle"]
    /\ UNCHANGED <<instance, once, connID, db, obj>>

\* Disconnect: db.isConnected = false; fmt.Printf("Disconnected from database ...")
DisconnectSet(g) ==
    /\ pc[g] = "disconnect_set"
    /\ heap' = [heap EXCEPT ![db[g]].isConnected = FALSE]
    /\ stdout' = <<"disconnected", heap[db[g]].connectionID>>
    /\ pc' = [pc EXCEPT ![g] = "idle"]
    /\ UNCHANGED <<instance, once, connID, db, obj>>

\* Query(sql)
Query(g, sql) ==
    /\ pc[g] = "idle"
    /\ db[g] # Nil
    /\ stdout' = IF ~heap[db[g]].isConnected
                 THEN <<"Error: Not connected to database. Call Connect() first.">>
                 ELSE <<"executing query", sql, heap[db[g]].connectionID>>
    /\ UNCHANGED <<instance, once, connID, heap, pc, db, obj>>

\* one step of a method call of goroutine g
Method(g) ==
    \/ Connect(g)
    \/ ConnectSet(g)
    \/ Disconnect(g)
    \/ DisconnectSet(g)
    \/ \E sql \in SQLs : Query(g, sql)

Step(g) == (GetInstance(g) \/ Method(g)) /\ UNCHANGED <<builderVars, factoryVars, seqVars>>

\* ---- sequential use of the connection: no two calls overlap ---------------

SeqInit ==
    /\ lastMethod = [op |-> ""]
    /\ lastConn = ""

\* one step of a call made through holder g's reference (db1, db2, db3 of
\* main) while no other holder is inside a call; the method calls are noted
\* when they begin
SeqStep(g) ==
    /\ \A h \in Goroutines \ {g} : pc[h] = "idle"
    /\ \/ GetInstance(g) /\ UNCHANGED seqVars
       \/ /\ Connect(g)
          /\ lastMethod' = [op |-> "Connect"]
          /\ lastConn' = "Connect"
       \/ ConnectSet(g) /\ UNCHANGED seqVars
       \/ /\ Disconnect(g)
          /\ lastMethod' = [op |-> "Disconnect"]
          /\ lastConn' = "Disconnect"
       \/ DisconnectSet(g) /\ UNCHANGED seqVars
       \/ \E sql \in SQLs :
             /\ Query(g, sql)
             /\ lastMethod' = [op |-> "Query", sql |-> sql]
             /\ UNCHANGED lastConn

(***************************************************************************)
(* builder: ServerConfig, ServerConfigBuilder                              *)
(***************************************************************************)
Fields ==
    {"Host", "Port", "SSL", "Timeout", "MaxConnections", "ReadTimeout",
     "WriteTimeout", "DatabaseURL", "CacheEnabled", "LogLevel"}

\* the arguments the callers pass; durations are in seconds
Hosts == {"", "localhost"}
Ports == {-1, 0, 1, 8080, 65535, 65536, 99999}
Durations == {30, 60}
MaxConns == {100, 1000}
URLs == {"", "postgresql://localhost:5432/mydb"}
LogLevels == {"debug", "info", "warn", "error", "invalid", ""}

\* ServerConfig{}: every field zero
ZeroServerConfig ==
    [Host |-> "", Port |-> 0, SSL |-> FALSE, Timeout |-> 0, MaxConnections |-> 0,
     ReadTimeout |-> 0, WriteTimeout |-> 0, DatabaseURL |-> "",
     CacheEnabled |-> FALSE, LogLevel |-> ""]

\* a constructor that leaves Timeout at its zero value
DefaultServerConfig_NoTimeout ==
    [ZeroServerConfig EXCEPT
        !.Port = 8080, !.SSL = FALSE, !.MaxConnections = 100,
        !.ReadTimeout = 10, !.WriteTimeout = 10, !.CacheEnabled = FALSE,
        !.LogLevel = "info"]

\* the composite literal of NewServerConfigBuilder
DefaultServerConfig ==
    [ZeroServerConfig EXCEPT
        !.Port = 8080, !.SSL = FALSE, !.Timeout = 30, !.MaxConnections = 100,
        !.ReadTimeout = 10, !.WriteTimeout = 10, !.CacheEnabled = FALSE,
        !.LogLevel = "info"]

NoError == [Field |-> "", Message |-> ""]

ValidationError(field, message) == [Field |-> field, Message |-> message]

\* func (e *ValidationError) Error() string
Error(e) == e.Field \o ": " \o e.Message

NoCall == [op |-> "", arg |-> ""]

\* the field each setter is for
FieldOf ==
    [Host |-> "Host", Port |-> "Port", EnableSSL |-> "SSL", Timeout |-> "Timeout",
     MaxConnections |-> "MaxConnections", ReadTimeout |-> "ReadTimeout",
     WriteTimeout |-> "WriteTimeout", DatabaseURL |-> "DatabaseURL",
     EnableCache |-> "CacheEnabled", LogLevel |-> "LogLevel"]

\* the caller holds a builder fresh from NewServerConfigBuilder
BuilderInit ==
    /\ cfgHeap = <<DefaultServerConfig>>
    /\ b = 1
    /\ configs = <<>>
    /\ result = [config |-> Nil, err |-> NoError]
    /\ lastCall = NoCall
    /\ lastSet = <<>>
    /\ ncalls = 0

NewServerConfigBuilder ==
    /\ ncalls < MaxCalls
    /\ cfgHeap' = Append(cfgHeap, DefaultServerConfig)
    /\ b' = Len(cfgHeap) + 1
    /\ lastCall' = [op |-> "NewServerConfigBuilder", arg |-> ""]
    /\ lastSet' = <<>>
    /\ ncalls' = ncalls + 1
    /\ UNCHANGED <<configs, result>>

\* a fluent setter: b.config.<field> = <value>; return b
SetField(name, field, value) ==
    /\ ncalls < MaxCalls
    /\ b # Nil
    /\ cfgHeap' = [cfgHeap EXCEPT ![b][field] = value]
    /\ b' = b
    /\ lastCall' = [op |-> name, arg |-> value]
    /\ lastSet' = [f \in DOMAIN lastSet \cup {FieldOf[name]} |->
                      IF f = FieldOf[name] THEN value ELSE lastSet[f]]
    /\ ncalls' = ncalls + 1
    /\ UNCHANGED <<configs, result>>

Host(host) == SetField("Host", "Host", host)

Port(port) == SetField("Port", "Port", port)

EnableSSL(enable) == SetField("EnableSSL", "SSL", enable)

Timeout(timeout) == SetField("Timeout", "Timeout", timeout)

MaxConnections(max) == SetField("MaxConnections", "MaxConnections", max)

\* a pasted setter that stores into its neighbour's field
ReadTimeout_StoresWriteTimeout(timeout) == SetField("ReadTimeout", "WriteTimeout", timeout)

ReadTimeout(timeout) == SetField("ReadTimeout", "ReadTimeout", timeout)

WriteTimeout(timeout) == SetField("WriteTimeout", "WriteTimeout", timeout)

DatabaseURL(url) == SetField("DatabaseURL", "DatabaseURL", url)

EnableCache(enable) == SetField("EnableCache", "CacheEnabled", enable)

LogLevel(level) == SetField("LogLevel", "LogLevel", level)

validLogLevels == {"debug", "info", "warn", "error"}

\* a validation that lets port 0 through
Validate_PortOffByOne(c) ==
    IF c.Host = ""
    THEN ValidationError("Host", "host is required")
    ELSE IF c.Port < 0 \/ c.Port > 65535
    THEN ValidationError("Port", "port must be between 1 and 65535")
    ELSE IF c.LogLevel \notin validLogLevels
    THEN ValidationError("LogLevel", "log level must be one of: debug, info, warn, error")
    ELSE NoError

\* the checks of Build, in the order Build makes them
Validate(c) ==
    IF c.Host = ""
    THEN ValidationError("Host", "host is required")
    ELSE IF c.Port <= 0 \/ c.Port > 65535
    THEN ValidationError("Port", "port must be between 1 and 65535")
    ELSE IF c.LogLevel \notin validLogLevels
    THEN ValidationError("LogLevel", "log level must be one of: debug, info, warn, error")
    ELSE NoError

\* a Build that returns the address of the staged config, not of a copy
Build_ReturnsStaged ==
    /\ ncalls < MaxCalls
    /\ b # Nil
    /\ IF Validate(cfgHeap[b]) # NoError
       THEN /\ result' = [config |-> Nil, err |-> Validate(cfgHeap[b])]
            /\ UNCHANGED configs
       ELSE /\ result' = [config |-> b, err |-> NoError]
            /\ configs' = Append(configs, b)
    /\ lastCall' = [op |-> "Build", arg |-> ""]
    /\ ncalls' = ncalls + 1
    /\ UNCHANGED <<cfgHeap, b, lastSet>>

\* a Build that keeps the first validation error and reports it from then on
Build_StickyError ==
    /\ ncalls < MaxCalls
    /\ b # Nil
    /\ IF Validate(cfgHeap[b]) # NoError \/ result.err # NoError
       THEN /\ result' = [config |-> Nil,
                          err |-> IF result.err # NoError THEN result.err
                                  ELSE Validate(cfgHeap[b])]
            /\ UNCHANGED <<cfgHeap, configs>>
       ELSE /\ cfgHeap' = Append(cfgHeap, cfgHeap[b])
            /\ result' = [config |-> Len(cfgHeap) + 1, err |-> NoError]
            /\ configs' = Append(configs, Len(cfgHeap) + 1)
    /\ lastCall' = [op |-> "Build", arg |-> ""]
    /\ ncalls' = ncalls + 1
    /\ UNCHANGED <<b, lastSet>>

\* Build: validate; config := b.config; return &config, nil
Build ==
    /\ ncalls < MaxCalls
    /\ b # Nil
    /\ IF Validate(cfgHeap[b]) # NoError
       THEN /\ result' = [config |-> Nil, err |-> Validate(cfgHeap[b])]
            /\ UNCHANGED <<cfgHeap, configs>>
       ELSE /\ cfgHeap' = Append(cfgHeap, cfgHeap[b])
            /\ result' = [config |-> Len(cfgHeap) + 1, err |-> NoError]
            /\ configs' = Append(configs, Len(cfgHeap) + 1)
    /\ lastCall' = [op |-> "Build", arg |-> ""]
    /\ ncalls' = ncalls + 1
    /\ UNCHANGED <<b, lastSet>>

Setter ==
    \/ \E host \in Hosts : Host(host)
    \/ \E port \in Ports : Port(port)
    \/ \E enable \in BOOLEAN : EnableSSL(enable)
    \/ \E timeout \in Durations : Timeout(timeout)
    \/ \E max \in MaxConns : MaxConnections(max)
    \/ \E timeout \in Durations : ReadTimeout(timeout)
    \/ \E timeout \in Durations : WriteTimeout(timeout)
    \/ \E url \in URLs : DatabaseURL(url)
    \/ \E enable \in BOOLEAN : EnableCache(enable)
    \/ \E level \in LogLevels : LogLevel(level)

(***************************************************************************)
(* factory: PaymentProcessor, CreatePaymentProcessor                       *)
(***************************************************************************)
CreditCard == "credit"

PayPal == "paypal"

BankTransfer == "bank"

\* the tags the callers pass: the three known ones and some that are not
PaymentTypes == {CreditCard, PayPal, BankTransfer, "unknown", "", "Credit"}

\* the keys CreatePaymentProcessor reads
DetailKeys == {"cardNumber", "cvv", "email", "accountNumber", "routingNumber"}

\* the values the callers put under each key
DetailValues ==
    [cardNumber |-> {"", "123", "3456", "1234567890123456"},
     cvv |-> {"123"},
     email |-> {"user@example.com"},
     accountNumber |-> {"987654321"},
     routingNumber |-> {"123456789"}]

\* a nil map[string]string
NilMap == [nil |-> TRUE]

\* the details maps the callers pass: nil, and every map of at most two of the
\* keys (the empty map among them)
DetailsMaps ==
    {NilMap} \cup
    UNION {{[isnil |-> FALSE, m |-> f] :
               f \in {g \in [K -> UNION {DetailValues[k] : k \in K}] :
                         \A k \in K : g[k] \in DetailValues[k]}} :
           K \in {L \in SUBSET DetailKeys : Cardinality(L) <= 2}}

\* details[key]: the zero value "" for a nil map or a missing key
Lookup(details, key) ==
    IF details = NilMap THEN ""
    ELSE IF key \in DOMAIN details.m THEN details.m[key] ELSE ""

\* amounts, in cents
Amounts == {0, 9999, 29900}

\* the nil PaymentProcessor
NilProcessor == [type |-> "nil"]

NoFactoryError == ""

NoOutcome == [panicked |-> FALSE, err |-> "none"]

\* a factory whose PayPal case was pasted from the bank case
Factory_PayPalPastedFromBank(paymentType, details) ==
    CASE paymentType = CreditCard ->
            [p |-> [type |-> "CreditCardProcessor",
                    cardNumber |-> Lookup(details, "cardNumber"),
                    cvv |-> Lookup(details, "cvv")],
             e |-> NoFactoryError]
      [] paymentType = PayPal ->
            [p |-> [type |-> "BankTransferProcessor",
                    accountNumber |-> Lookup(details, "accountNumber"),
                    routingNumber |-> Lookup(details, "routingNumber")],
             e |-> NoFactoryError]
      [] paymentType = BankTransfer ->
            [p |-> [type |-> "BankTransferProcessor",
                    accountNumber |-> Lookup(details, "accountNumber"),
                    routingNumber |-> Lookup(details, "routingNumber")],
             e |-> NoFactoryError]
      [] OTHER ->
            [p |-> NilProcessor, e |-> "unknown payment type: " \o paymentType]

\* a factory whose default case reports no tag
Factory_ErrorWithoutTag(paymentType, details) ==
    CASE paymentType = CreditCard ->
            [p |-> [type |-> "CreditCardProcessor",
                    cardNumber |-> Lookup(details, "cardNumber"),
                    cvv |-> Lookup(details, "cvv")],
             e |-> NoFactoryError]
      [] paymentType = PayPal ->
            [p |-> [type |-> "PayPalProcessor", email |-> Lookup(details, "email")],
             e |-> NoFactoryError]
      [] paymentType = BankTransfer ->
            [p |-> [type |-> "BankTransferProcessor",
                    accountNumber |-> Lookup(details, "accountNumber"),
                    routingNumber |-> Lookup(details, "routingNumber")],
             e |-> NoFactoryError]
      [] OTHER ->
            [p |-> NilProcessor, e |-> "unknown payment type"]

\* the switch of CreatePaymentProcessor: the (processor, error) it returns
Factory(paymentType, details) ==
    CASE paymentType = CreditCard ->
            [p |-> [type |-> "CreditCardProcessor",
                    cardNumber |-> Lookup(details, "cardNumber"),
                    cvv |-> Lookup(details, "cvv")],
             e |-> NoFactoryError]
      [] paymentType = PayPal ->
            [p |-> [type |-> "PayPalProcessor", email |-> Lookup(details, "email")],
             e |-> NoFactoryError]
      [] paymentType = BankTransfer ->
            [p |-> [type |-> "BankTransferProcessor",
                    accountNumber |-> Lookup(details, "accountNumber"),
                    routingNumber |-> Lookup(details, "routingNumber")],
             e |-> NoFactoryError]
      [] OTHER ->
            [p |-> NilProcessor, e |-> "unknown payment type: " \o paymentType]

\* GetName of the three processors
GetName(p) ==
    CASE p.type = "CreditCardProcessor" -> "Credit Card"
      [] p.type = "PayPalProcessor" -> "PayPal"
      [] p.type = "BankTransferProcessor" -> "Bank Transfer"

FactoryInit ==
    /\ processor = NilProcessor
    /\ err = NoFactoryError
    /\ outcome = NoOutcome
    /\ fcall = [op |-> ""]
    /\ fstdout = <<"">>

\* a panic that nothing recovers ends the program
Crashed == outcome.panicked

CreatePaymentProcessor(paymentType, details) ==
    /\ ~Crashed
    /\ processor' = Factory(paymentType, details).p
    /\ err' = Factory(paymentType, details).e
    /\ fcall' = [op |-> "CreatePaymentProcessor", paymentType |-> paymentType,
                 details |-> details]
    /\ outcome' = NoOutcome
    /\ UNCHANGED fstdout

\* CreditCardProcessor.Process: c.cardNumber[len(c.cardNumber)-4:] panics when
\* the card number has fewer than 4 characters
ProcessCreditCard(p, amount) ==
    IF Len(p.cardNumber) < 4
    THEN [panicked |-> TRUE, err |-> "slice bounds out of range",
          line |-> <<"">>]
    ELSE [panicked |-> FALSE, err |-> "nil",
          line |-> <<"Processing", amount, "via Credit Card ending in",
                     SubSeq(p.cardNumber, Len(p.cardNumber) - 3, Len(p.cardNumber))>>]

\* PayPalProcessor.Process
ProcessPayPal(p, amount) ==
    [panicked |-> FALSE, err |-> "nil",
     line |-> <<"Processing", amount, "via PayPal for", p.email>>]

\* BankTransferProcessor.Process
ProcessBankTransfer(p, amount) ==
    [panicked |-> FALSE, err |-> "nil",
     line |-> <<"Processing", amount, "via Bank Transfer to account", p.accountNumber>>]

\* processor.Process(amount), dispatched on the processor's type
Process(amount) ==
    /\ ~Crashed
    /\ processor # NilProcessor
    /\ LET r == CASE processor.type = "CreditCardProcessor" ->
                        ProcessCreditCard(processor, amount)
                  [] processor.type = "PayPalProcessor" ->
                        ProcessPayPal(processor, amount)
                  [] processor.type = "BankTransferProcessor" ->
                        ProcessBankTransfer(processor, amount)
       IN /\ outcome' = [panicked |-> r.panicked, err |-> r.err]
          /\ fstdout' = IF r.panicked THEN fstdout ELSE r.line
    /\ fcall' = [op |-> "Process", amount |-> amount]
    /\ UNCHANGED <<processor, err>>

Init == SingletonInit /\ BuilderInit /\ FactoryInit /\ SeqInit

Next == \E g \in Goroutines : Step(g)

Spec == Init /\ [][Next]_vars

\* the Go scheduler runs every runnable goroutine eventually
FairSpec == Spec /\ \A g \in Goroutines : WF_vars(Step(g))

NextBuilder ==
    \/ NewServerConfigBuilder /\ UNCHANGED <<singletonVars, factoryVars, seqVars>>
    \/ Setter /\ UNCHANGED <<singletonVars, factoryVars, seqVars>>
    \/ Build /\ UNCHANGED <<singletonVars, factoryVars, seqVars>>

SpecBuilder == Init /\ [][NextBuilder]_vars

NextFactory ==
    \/ /\ \E paymentType \in PaymentTypes, details \in DetailsMaps :
             CreatePaymentProcessor(paymentType, details)
       /\ UNCHANGED <<singletonVars, builderVars, seqVars>>
    \/ /\ \E amount \in Amounts : Process(amount)
       /\ UNCHANGED <<singletonVars, builderVars, seqVars>>

SpecFactory == Init /\ [][NextFactory]_vars

NextSequential ==
    \E g \in Goroutines : SeqStep(g) /\ UNCHANGED <<builderVars, factoryVars>>

SpecSequential == Init /\ [][NextSequential]_vars

(***************************************************************************)
(* The singleton's claims                                                  *)
(***************************************************************************)
InitializerPCs ==
    {"init_incr", "init_alloc", "init_store", "init_filled", "init_published",
     "init_print", "store_done"}

\* goroutine g is the caller whose Do runs f (f entered, done not yet stored)
InInitializer(g) == pc[g] \in InitializerPCs

\* goroutine g is inside a GetInstance call
InGetInstance(g) == pc[g] \in InitializerPCs \cup {"lock", "check", "unlock", "return"}

\* the initialization state of spec.md's data model, read off the Once
InitState ==
    IF once.done = 1 THEN "Completed"
    ELSE IF \E g \in Goroutines : InInitializer(g) THEN "InProgress"
    ELSE "Uninitialized"

Rank(st) == CASE st = "Uninitialized" -> 0 [] st = "InProgress" -> 1 [] st = "Completed" -> 2

\* every field of the object at address a has the initializer's value
\* (isConnected is false in the literal and is the holders' to change afterwards)
FullyConstructed(a) ==
    /\ a \in DOMAIN heap
    /\ heap[a].connectionString = ConnectionString
    /\ heap[a].connectionID = connID
    /\ heap[a].connectionID >= 1

\* C1: however the N goroutines interleave, the initializer body runs exactly
\* once (connID is incremented once, one DatabaseConnection is allocated) and
\* all calls that have returned hold the identical instance.
C1_OneInitOneInstance ==
    /\ connID <= 1
    /\ Len(heap) <= 1
    /\ \A g \in Goroutines :
          db[g] # Nil => /\ connID = 1
                         /\ Len(heap) = 1
                         /\ db[g] = instance
                         /\ heap[db[g]].connectionID = 1
    /\ \A g, h \in Goroutines :
          (db[g] # Nil /\ db[h] # Nil) =>
              /\ db[g] = db[h]
              /\ heap[db[g]].connectionID = heap[db[h]].connectionID

\* C1's case: one first-time caller has returned with the instance while all
\* the others, which raced it past the fast path, still wait for the mutex.
C1_Witness ==
    \E g \in Goroutines :
        /\ pc[g] = "idle" /\ db[g] # Nil
        /\ \A h \in Goroutines \ {g} : pc[h] = "lock" /\ db[h] = Nil

\* C2: a GetInstance call returns only when the initializer has finished: at
\* its return statement done is set and instance is a non-nil, fully
\* constructed DatabaseConnection, and so is every reference a caller holds.
C2_NoPartialConstruction ==
    \A g \in Goroutines :
        /\ pc[g] = "return" =>
              /\ once.done = 1
              /\ instance # Nil
              /\ FullyConstructed(instance)
              /\ \A h \in Goroutines : ~InInitializer(h)
        /\ db[g] # Nil => FullyConstructed(db[g])

\* C2's case: two goroutines are at their return statement and nobody has
\* returned before, so at least one of them did not run the initializer.
C2_Witness ==
    \E g, h \in Goroutines :
        /\ g # h
        /\ pc[g] = "return" /\ pc[h] = "return"
        /\ \A k \in Goroutines : db[k] = Nil

\* C3: once done is set, every step of every GetInstance call leaves instance,
\* connID and the heap (every field of the DatabaseConnection) unchanged, starts
\* no initializer, and a call that returns returns the one instance.
C3_CompletedIsPureRead ==
    [][ (once.done = 1 /\ \E g \in Goroutines : GetInstance(g)) =>
            /\ UNCHANGED <<instance, connID, heap, once.done>>
            /\ \A g \in Goroutines :
                  /\ InInitializer(g)' => InInitializer(g)
                  /\ (pc[g] = "return" /\ pc'[g] = "idle") =>
                        (db'[g] = instance /\ db'[g] # Nil)
                  /\ (db[g] # Nil /\ db'[g] # Nil) => db'[g] = db[g]
      ]_vars

\* C3's case: after completion, with the connection's fields changed by a
\* holder, a goroutine that already holds the instance is returning from a
\* further call while another holder is in the middle of a method.
C3_Witness ==
    /\ once.done = 1
    /\ heap[instance].isConnected
    /\ \E g, h \in Goroutines :
          /\ pc[g] = "return" /\ db[g] # Nil
          /\ pc[h] = "disconnect_set"

\* C4: the initialization state only moves forward, one stage at a time; at
\* most one goroutine is ever inside the initializer, and it is that goroutine
\* whose step leaves Uninitialized.  No step of GetInstance, Connect, Disconnect
\* or Query brings the state back.
C4_ForwardOnly ==
    /\ [][ /\ Rank(InitState') >= Rank(InitState)
           /\ Rank(InitState') <= Rank(InitState) + 1
           /\ (InitState = "Uninitialized" /\ InitState' = "InProgress") =>
                 Cardinality({g \in Goroutines : InInitializer(g)'}) = 1
           /\ InitState # "Uninitialized" =>
                 \A g \in Goroutines : InInitializer(g)' => InInitializer(g)
         ]_vars
    /\ [](Cardinality({g \in Goroutines : InInitializer(g)}) <= 1)

\* C4's case: Completed, and since then the holders have called GetInstance
\* again, connected and queried.
C4_Witness ==
    /\ InitState = "Completed"
    /\ \A g \in Goroutines : db[g] # Nil
    /\ \E g, h \in Goroutines : g # h /\ pc[g] = "return" /\ pc[h] = "connect_set"
    /\ stdout[1] = "executing query"

\* C5: while the initializer runs, every other goroutine is outside GetInstance
\* or blocked on the mutex (it neither proceeds nor runs the initializer); and
\* under a fair scheduler every GetInstance call, blocked or later, returns.
C5_BlockThenReturn ==
    /\ [](InitState = "InProgress" =>
            \A g \in Goroutines :
                \/ InInitializer(g) /\ once.m = g
                \/ pc[g] = "lock"
                \/ pc[g] = "idle" /\ db[g] = Nil)
    /\ \A g \in Goroutines :
          InGetInstance(g) ~> (pc[g] = "idle" /\ db[g] # Nil)

\* C5's case: the initializer is running and every other goroutine has arrived
\* and is blocked on the mutex.
C5_Witness ==
    \E g \in Goroutines :
        /\ pc[g] = "init_print"
        /\ \A h \in Goroutines \ {g} : pc[h] = "lock"

\* C14: nothing guards isConnected.  A holder that is idle while the instance
\* is disconnected can always take Connect's "connected" branch, whatever the
\* other holders are in the middle of; and a holder in that branch stores true
\* and prints "Connected" whether or not another has done so meanwhile.  So
\* two holders can be in the branch at once (the witness).
C14_ConnectUnguarded ==
    /\ [](\A g \in Goroutines :
            (pc[g] = "idle" /\ db[g] # Nil /\ ~heap[db[g]].isConnected) =>
                ENABLED (/\ Connect(g)
                         /\ pc'[g] = "connect_set"
                         /\ UNCHANGED <<builderVars, factoryVars>>))
    /\ [][\A g \in Goroutines :
            (pc[g] = "connect_set" /\ pc'[g] = "idle") =>
                /\ heap'[db[g]].isConnected
                /\ stdout' = <<"connected", heap[db[g]].connectionID>>
         ]_vars

\* C14's case: two holders of the shared instance have both seen
\* isConnected == false and are both in the "connected" branch.
C14_Witness ==
    \E g, h \in Goroutines :
        /\ g # h
        /\ pc[g] = "connect_set" /\ pc[h] = "connect_set"
        /\ db[g] = instance /\ db[h] = instance
        /\ ~heap[instance].isConnected

\* no holder is inside a call
AllIdle == \A g \in Goroutines : pc[g] = "idle"

\* C15: in a sequential run of Connect, Disconnect and Query calls, between
\* calls the instance is connected exactly when the most recent
\* Connect/Disconnect call was a Connect (so it starts disconnected, Connect
\* leaves it connected, Disconnect leaves it disconnected, and repeating either
\* changes nothing); a Query executes the query when that call was a Connect
\* and reports the not-connected error otherwise; a Query never changes
\* isConnected; and once the instance is constructed no step changes the
\* connectionID or the connectionString of any object.
C15_SequentialConnection ==
    /\ [](AllIdle /\ instance # Nil /\ once.done = 1 =>
            /\ heap[instance].isConnected = (lastConn = "Connect")
            /\ lastMethod.op = "Query" =>
                  stdout = IF lastConn = "Connect"
                           THEN <<"executing query", lastMethod.sql,
                                  heap[instance].connectionID>>
                           ELSE <<"Error: Not connected to database. Call Connect() first.">>)
    /\ [][/\ lastMethod' # lastMethod /\ lastMethod'.op = "Query" => heap' = heap
          /\ once.done = 1 =>
                /\ DOMAIN heap' = DOMAIN heap
                /\ \A i \in DOMAIN heap :
                      /\ heap'[i].connectionID = heap[i].connectionID
                      /\ heap'[i].connectionString = heap[i].connectionString]_vars

\* a Query has just reported the not-connected error on an instance that a
\* Disconnect left disconnected, issued through a second reference
C15_Witness ==
    /\ AllIdle
    /\ \A g \in Goroutines : db[g] = instance
    /\ instance # Nil
    /\ lastConn = "Disconnect"
    /\ lastMethod.op = "Query"
    /\ ~heap[instance].isConnected
    /\ stdout = <<"Error: Not connected to database. Call Connect() first.">>

(***************************************************************************)
(* The builder's claims                                                    *)
(***************************************************************************)
\* the last call was a Build that returned a config
BuildSucceeded == lastCall.op = "Build" /\ result.err = NoError /\ result.config # Nil

\* the fields of staged config c that Build rejects
Offending(c) ==
    {f \in {"Host"} : c.Host = ""}
    \cup {f \in {"Port"} : c.Port \notin 1..65535}
    \cup {f \in {"LogLevel"} : c.LogLevel \notin {"debug", "info", "warn", "error"}}

\* C7: Build on a fresh builder with only Host("localhost") and Port(8080) set
\* succeeds with SSL=false, Timeout=30s, MaxConnections=100, LogLevel="info";
\* and in every built config each field no setter was called for has the
\* default of NewServerConfigBuilder.
C7_DefaultsKept ==
    /\ (/\ lastCall.op = "Build"
        /\ DOMAIN lastSet = {"Host", "Port"}
        /\ lastSet["Host"] = "localhost"
        /\ lastSet["Port"] = 8080) =>
            /\ BuildSucceeded
            /\ cfgHeap[result.config].Host = "localhost"
            /\ cfgHeap[result.config].Port = 8080
            /\ cfgHeap[result.config].SSL = FALSE
            /\ cfgHeap[result.config].Timeout = 30
            /\ cfgHeap[result.config].MaxConnections = 100
            /\ cfgHeap[result.config].LogLevel = "info"
    /\ BuildSucceeded =>
          \A f \in Fields \ DOMAIN lastSet :
              cfgHeap[result.config][f] = DefaultServerConfig[f]

\* C7's case: the minimal config of the demo has been built.
C7_Witness ==
    /\ BuildSucceeded
    /\ DOMAIN lastSet = {"Host", "Port"}
    /\ lastSet["Host"] = "localhost"
    /\ lastSet["Port"] = 8080

\* C8: Build returns a ValidationError and no config exactly when the host is
\* empty, the port is outside 1..65535 or the log level is not one of
\* debug/info/warn/error, and then Field (and the text of Error()) names an
\* offending field; in every other state of the builder Build returns a config
\* and a nil error.
C8_ValidationExactly ==
    lastCall.op = "Build" =>
        /\ (Offending(cfgHeap[b]) # {}) <=> (result.err # NoError)
        /\ result.err # NoError =>
              /\ result.config = Nil
              /\ result.err.Field \in Offending(cfgHeap[b])
              /\ result.err.Message # ""
        /\ result.err = NoError =>
              /\ result.config # Nil
              /\ cfgHeap[result.config] = cfgHeap[b]
        /\ (cfgHeap[b].Host = "localhost" /\ cfgHeap[b].Port = 99999) =>
              /\ result.err.Field = "Port"
              /\ Error(result.err) = "Port: port must be between 1 and 65535"
        /\ (cfgHeap[b].Host = "") => result.err.Field = "Host"
        /\ (/\ cfgHeap[b].Host = "localhost" /\ cfgHeap[b].Port = 8080
            /\ cfgHeap[b].LogLevel = "invalid") => result.err.Field = "LogLevel"

\* C8's case: Build has rejected port 99999 of a builder whose host is set
\* and whose log level is invalid as well.
C8_Witness ==
    /\ lastCall.op = "Build"
    /\ cfgHeap[b].Host = "localhost"
    /\ cfgHeap[b].Port = 99999
    /\ cfgHeap[b].LogLevel = "invalid"
    /\ result = [config |-> Nil,
                 err |-> [Field |-> "Port", Message |-> "port must be between 1 and 65535"]]

\* C9: no call on the builder (a setter, a further Build, a new builder)
\* changes any field of a config an earlier Build returned; the returned
\* configs are objects of their own, distinct from each other and from the
\* builder's staged config.
C9_BuiltConfigsFrozen ==
    /\ [][\A i \in 1..Len(configs) : cfgHeap'[configs[i]] = cfgHeap[configs[i]]]_vars
    /\ [](\A i \in 1..Len(configs) :
            /\ configs[i] # b
            /\ configs[i] # Nil
            /\ \A j \in 1..Len(configs) : i # j => configs[i] # configs[j])

\* C9's case: a config was built, the builder was changed by a setter, and a
\* second config was built that differs from the first.
C9_Witness ==
    /\ Len(configs) = 2
    /\ lastCall.op = "Build"
    /\ cfgHeap[configs[1]] # cfgHeap[configs[2]]
    /\ cfgHeap[configs[2]] = cfgHeap[b]

\* C10: every setter returns the builder it was called on, stores its argument
\* in its own staged field and changes nothing else; so a built config holds,
\* for each field, the argument of the last setter call for it.
C10_SettersFluent ==
    /\ [][(ncalls' = ncalls + 1 /\ lastCall'.op \in DOMAIN FieldOf) =>
            /\ b' = b
            /\ cfgHeap' = [cfgHeap EXCEPT ![b][FieldOf[lastCall'.op]] = lastCall'.arg]
            /\ UNCHANGED <<configs, result>>
         ]_vars
    /\ [](BuildSucceeded =>
            \A f \in DOMAIN lastSet : cfgHeap[result.config][f] = lastSet[f])

\* C10's case: three different setters were chained and the config was built.
C10_Witness ==
    /\ BuildSucceeded
    /\ DOMAIN lastSet = {"Host", "ReadTimeout", "WriteTimeout"}
    /\ lastSet["ReadTimeout"] # lastSet["WriteTimeout"]

\* C13: a Build that fails changes nothing of the builder (its staged fields,
\* the builder itself, the configs already returned); and a failure leaves no
\* error state behind: after it, a Build of a builder, the same or a fresh
\* one, whose staged fields are valid returns a config of those fields.
C13_FailureRecoverable ==
    /\ [][(ncalls' = ncalls + 1 /\ lastCall'.op = "Build" /\ result'.err # NoError) =>
            /\ cfgHeap' = cfgHeap
            /\ b' = b
            /\ configs' = configs
            /\ result'.config = Nil
         ]_vars
    /\ [][(/\ result.err # NoError
           /\ ncalls' = ncalls + 1 /\ lastCall'.op = "Build"
           /\ Offending(cfgHeap[b]) = {}) =>
            /\ result'.err = NoError
            /\ result'.config # Nil
            /\ cfgHeap'[result'.config] = cfgHeap[b]
         ]_vars

\* C13's case: Build failed for the missing host, the caller then set the
\* host on the same builder, and a call is left for the Build that follows.
C13_Witness ==
    /\ result.err = ValidationError("Host", "host is required")
    /\ lastCall = [op |-> "Host", arg |-> "localhost"]
    /\ Offending(cfgHeap[b]) = {}
    /\ b = 1
    /\ ncalls < MaxCalls

(***************************************************************************)
(* The factory's claims                                                    *)
(***************************************************************************)
KnownPaymentTypes == {"credit", "paypal", "bank"}

\* the last call was CreatePaymentProcessor
Created == fcall.op = "CreatePaymentProcessor"

\* C11: for each known payment type and every details map, nil and incomplete
\* ones included, CreatePaymentProcessor returns a nil error and a processor
\* whose GetName is "Credit Card", "PayPal" or "Bank Transfer" respectively.
C11_KnownTypesNamed ==
    (Created /\ fcall.paymentType \in KnownPaymentTypes) =>
        /\ err = NoFactoryError
        /\ processor # NilProcessor
        /\ fcall.paymentType = "credit" => GetName(processor) = "Credit Card"
        /\ fcall.paymentType = "paypal" => GetName(processor) = "PayPal"
        /\ fcall.paymentType = "bank" => GetName(processor) = "Bank Transfer"

\* C11's case: a PayPal processor was asked for with a map that lacks the
\* email, and was returned.
C11_Witness ==
    /\ Created
    /\ fcall.paymentType = "paypal"
    /\ fcall.details # NilMap
    /\ "email" \notin DOMAIN fcall.details.m
    /\ err = NoFactoryError
    /\ GetName(processor) = "PayPal"

\* C12: for every payment type outside credit/paypal/bank, the empty string
\* included, and whatever the details, CreatePaymentProcessor returns the nil
\* processor and an error whose message ends in the tag it was given.
C12_UnknownTypeRejected ==
    (Created /\ fcall.paymentType \notin KnownPaymentTypes) =>
        /\ processor = NilProcessor
        /\ err # NoFactoryError
        /\ err = "unknown payment type: " \o fcall.paymentType
        /\ fcall.paymentType = "unknown" => err = "unknown payment type: unknown"
        /\ fcall.paymentType = "Credit" => err = "unknown payment type: Credit"
        /\ fcall.paymentType = "" => err = "unknown payment type: "

\* C12's case: the demo's call, CreatePaymentProcessor("unknown", nil), made
\* while the caller held a processor from an earlier call.
C12_Witness ==
    /\ Created
    /\ fcall.paymentType = "unknown"
    /\ fcall.details = NilMap
    /\ processor = NilProcessor
    /\ err = "unknown payment type: unknown"
    /\ fstdout # <<"">>

\* C16: whenever Process is called on a processor that CreatePaymentProcessor
\* returned for a known payment type, it completes without a panic and
\* returns a nil error.
C16_ProcessAlwaysSucceeds ==
    fcall.op = "Process" => outcome = [panicked |-> FALSE, err |-> "nil"]

====
